---- MODULE Spec2Model ----
(***************************************************************************)
(* Model of src/as3.py: class as3, the install / uninstall / isInstalled   *)
(* workflows against a BIG-IP session (iCR) and the version lookup and     *)
(* download against the GitHub releases API.                               *)
(*                                                                         *)
(* Python values are tagged records so that Python truthiness, the `in`    *)
(* operator and str() are computed as Python computes them.  Strings that  *)
(* the code compares or tests with endswith are sequences of characters.   *)
(***************************************************************************)
EXTENDS Integers, Sequences, FiniteSets, TLC

\* ---------------------------------------------------------------- bounds
MaxConn == 2
MaxDepth == 2
MaxAssets == 2
MaxReleases == 2
MaxCalls == 2

\* ------------------------------------------------------- Python values
PyFalse == [t |-> "bool", b |-> FALSE]
PyTrue == [t |-> "bool", b |-> TRUE]
PyNone == [t |-> "none"]
PyStr(s) == [t |-> "str", s |-> s]
PyInt(n) == [t |-> "int", n |-> n]
PyDict(d) == [t |-> "dict", d |-> d]
PyText(j) == [t |-> "text", j |-> j]
PyRaise(e) == [t |-> "raise", e |-> e]

\* Python truth value of a value (`if x`, `not x`).
Truthy(v) ==
  CASE v.t = "bool" -> v.b
    [] v.t = "none" -> FALSE
    [] v.t = "str" -> v.s # <<>>
    [] v.t = "int" -> v.n # 0
    [] v.t = "dict" -> DOMAIN v.d # {}
    [] v.t = "text" -> TRUE
    [] v.t = "session" -> TRUE

\* `key in v` for a mapping v.
HasKey(v, key) == v.t = "dict" /\ key \in DOMAIN v.d

Digits == <<"0", "1", "2", "3", "4", "5", "6", "7", "8", "9">>

RECURSIVE StrOfInt(_)
StrOfInt(n) ==
  IF n < 10 THEN <<Digits[n + 1]>>
  ELSE StrOfInt(n \div 10) \o <<Digits[(n % 10) + 1]>>

\* str(x) for the values the code applies it to (ids and names).
Str(v) == IF v.t = "int" THEN StrOfInt(v.n) ELSE v.s

\* s.endswith(suffix)
EndsWith(s, suffix) ==
  /\ Len(s) >= Len(suffix)
  /\ SubSeq(s, Len(s) - Len(suffix) + 1, Len(s)) = suffix

\* --------------------------------------------------------- input domains
DefaultHost == "127.0.0.1"
OtherHost == "10.0.0.2"

\* keyword arguments of a call: "unset" stands for an absent keyword
KwArgs == { [host |-> "unset", usetoken |-> "unset"],
            [host |-> OtherHost, usetoken |-> "True"],
            [host |-> OtherHost, usetoken |-> "False"] }

V1 == <<"v", "1">>
V2 == <<"v", "2">>
R1 == <<"1">>

\* replies of GET /mgmt/shared/appsvcs/info through iCR.get
InfoMappings ==
  { <<>>,
    [version |-> V1],
    [release |-> R1],
    [version |-> V1, release |-> R1],
    [version |-> V2, release |-> R1] }
InfoResponses == {PyFalse} \cup {PyDict(d) : d \in InfoMappings}

VersionArgs == {PyFalse, PyStr(V1), PyStr(V2)}

LocalRpm == <<"l", "o", "c", "a", "l", ".", "r", "p", "m">>
MissingRpm == <<"g", "o", "n", "e", ".", "r", "p", "m">>
FilenameArgs == {PyFalse, PyStr(LocalRpm), PyStr(MissingRpm)}

\* sequences over S of length at most n
SeqsUpTo(S, n) == UNION {[1..m -> S] : m \in 0..n}

\* assets of a release: the package, a second package, the digest file
RpmA == <<"a", ".", "r", "p", "m">>
RpmB == <<"b", ".", "r", "p", "m">>
Sha == <<"a", ".", "r", "p", "m", ".", "s", "h", "a">>
Assets == { [id |-> 7, name |-> Sha], [id |-> 8, name |-> RpmA],
            [id |-> 9, name |-> RpmB] }
ReleaseObjects == [name : {V1}, id : {1}, assets : SeqsUpTo(Assets, MaxAssets)]

\* entries of the release list: two releases named v1, one named v10
V10 == <<"v", "1", "0">>
ReleaseEntries == { [name |-> V1, id |-> 1], [name |-> V10, id |-> 2],
                    [name |-> V1, id |-> 3] }
ReleaseLists == SeqsUpTo(ReleaseEntries, MaxReleases)

\* ids the latest pointer can carry
LatestIds == {0, 1}

\* replies of the catalog: a requests exception, a status other than 200,
\* or 200 with a body
Failures == {"exception", "status"}
ListReplies == [st : Failures, body : {<<>>}] \cup [st : {"ok"}, body : ReleaseLists]
NoLatest == [id |-> 0, author |-> 0]
LatestReplies ==
  [st : Failures, body : {NoLatest}]
    \cup [st : {"ok"}, body : [id : LatestIds, author : {5}]]
ReleaseReplies ==
  [st : Failures, body : {[name |-> <<>>, id |-> 0, assets |-> <<>>]}]
    \cup [st : {"ok"}, body : ReleaseObjects]
DownloadReplies == [st : Failures \cup {"ok"}, body : {<<>>}]

\* status codes of the task request
Accepted == 202
StatusCodes == {200, 202, 400}

VARIABLES
  host, usetoken,          \* self.host, self.usetoken
  bigip, error,            \* self.bigip, self.error
  files,                   \* names of the files on local disk
  pc, op, kw, version, filename,
  vid, release, relObj, depth, rcaller,
  code, currentVersion, installed, response, releases,
  result,                  \* value the last finished call returned
  trace,                   \* external calls issued by the current call
  errWritten,              \* self.error was assigned during the current call
  nConn, nEstablished, firstSession,
  calls,                   \* calls made on the instance so far
  latestReply,             \* body of the latest-pointer reply last received
  failed,                  \* steps of the current call that reported failure
  argFilename              \* the filename keyword installAS3 was called with

inst == <<host, usetoken>>
conn == <<bigip, nConn, nEstablished, firstSession>>
call == <<op, kw, version, filename>>
retr == <<release, relObj, depth, rcaller>>
dev == <<code, currentVersion, installed, response>>
vars == <<host, usetoken, bigip, error, files, pc, op, kw, version, filename,
          vid, release, relObj, depth, rcaller, code, currentVersion,
          installed, response, releases, result, trace, errWritten,
          nConn, nEstablished, firstSession, calls, latestReply, failed,
          argFilename>>

\* one external call: kind, session id used (0 when none), argument
Ev(k, s, a) == [k |-> k, s |-> s, a |-> a]

NoRelease == [name |-> <<>>, id |-> 0, assets |-> <<>>]

\* the locals of a call before it starts, and the record of the last call
NoCall ==
  /\ op = "none"
  /\ kw = [host |-> "unset", usetoken |-> "unset"]
  /\ version = PyFalse
  /\ filename = PyFalse
  /\ vid = PyFalse
  /\ release = PyFalse
  /\ relObj = NoRelease
  /\ depth = 0
  /\ rcaller = "none"
  /\ code = 0
  /\ currentVersion = PyFalse
  /\ installed = PyFalse
  /\ response = PyFalse
  /\ releases = PyFalse
  /\ result = PyNone
  /\ trace = <<>>
  /\ errWritten = FALSE
  /\ latestReply = NoLatest
  /\ failed = {}
  /\ argFilename = PyFalse

Init ==
  /\ host = DefaultHost
  /\ usetoken \in BOOLEAN
  /\ bigip = PyFalse
  /\ error = ""
  /\ files = {LocalRpm}
  /\ pc = "idle"
  /\ NoCall
  /\ nConn = 0
  /\ nEstablished = 0
  /\ firstSession = 0
  /\ calls = 0

\* the caller has taken the returned value: the frame and its locals are gone
Forget ==
  /\ pc = "done"
  /\ pc' = "idle"
  /\ op' = "none"
  /\ kw' = [host |-> "unset", usetoken |-> "unset"]
  /\ version' = PyFalse
  /\ filename' = PyFalse
  /\ vid' = PyFalse
  /\ release' = PyFalse
  /\ relObj' = NoRelease
  /\ depth' = 0
  /\ rcaller' = "none"
  /\ code' = 0
  /\ currentVersion' = PyFalse
  /\ installed' = PyFalse
  /\ response' = PyFalse
  /\ releases' = PyFalse
  /\ result' = PyNone
  /\ trace' = <<>>
  /\ errWritten' = FALSE
  /\ latestReply' = NoLatest
  /\ failed' = {}
  /\ argFilename' = PyFalse
  /\ UNCHANGED <<inst, calls, conn, error, files>>

\* ------------------------------------------------------------ bigipConnect
\* kwargs.pop('host', self.host)
KwHost(k) == IF k.host = "unset" THEN host ELSE k.host
\* kwargs.pop('usetoken', False)
KwUseToken(k) == IF k.usetoken = "unset" THEN FALSE ELSE k.usetoken = "True"

\* truth value of a freshly constructed iCR object (`if not bigip`)
IcrTruthy == TRUE

\* bigipConnect(host=..., usetoken=...): tokOk is whether get_token() gave a
\* token.  The record carries the new instance fields and the calls made.
bigipConnect(h, tok, tokOk) ==
  LET obj == [t |-> "session", id |-> nConn + 1, host |-> h, token |-> tok]
      ok == IF tok THEN tokOk ELSE IcrTruthy
  IN [ ok |-> ok,
       bigip |-> IF ok THEN obj ELSE bigip,
       error |-> IF ok THEN error
                 ELSE IF tok THEN "Cannot retrieve token from host"
                 ELSE "bigip.error",
       wrote |-> ~ok,
       ev |-> <<Ev("connect", nConn + 1, <<h>>)>>
              \o (IF tok THEN <<Ev("get_token", nConn + 1, <<>>)>> ELSE <<>>),
       nConn |-> nConn + 1,
       nEst |-> IF ok THEN nEstablished + 1 ELSE nEstablished,
       first |-> IF ok /\ firstSession = 0 THEN nConn + 1 ELSE firstSession ]

EnsureSession_OverrideReconnect(k, tokOk) ==
  IF ~Truthy(bigip) \/ k.host # "unset"
  THEN bigipConnect(KwHost(k), KwUseToken(k), tokOk)
  ELSE [ ok |-> TRUE, bigip |-> bigip, error |-> error, wrote |-> FALSE,
         ev |-> <<>>, nConn |-> nConn, nEst |-> nEstablished,
         first |-> firstSession ]

EnsureSession_Reconnect(k, tokOk) ==
  bigipConnect(KwHost(k), KwUseToken(k), tokOk)

\* "Connect to the BIG-IP if not already done so"
EnsureSession(k, tokOk) ==
  IF ~Truthy(bigip)
  THEN bigipConnect(KwHost(k), KwUseToken(k), tokOk)
  ELSE [ ok |-> TRUE, bigip |-> bigip, error |-> error, wrote |-> FALSE,
         ev |-> <<>>, nConn |-> nConn, nEst |-> nEstablished,
         first |-> firstSession ]

SetConn(c) ==
  /\ bigip' = c.bigip
  /\ nConn' = c.nConn
  /\ nEstablished' = c.nEst
  /\ firstSession' = c.first

\* a call may start only while another iCR object can still be created
CanStart == calls < MaxCalls /\ (Truthy(bigip) \/ nConn < MaxConn)

\* -------------------------------------------------------------- isInstalled
isInstalledValue_NoSentinel(ver, resp) ==
  IF ~Truthy(resp) THEN PyFalse
  ELSE IF Truthy(ver) /\ HasKey(resp, "version") /\ resp.d["version"] # ver.s
    THEN PyFalse
  ELSE IF HasKey(resp, "version") THEN resp
  ELSE PyFalse

isInstalledValue_NoCompare(ver, resp) ==
  IF ~Truthy(resp) THEN PyFalse
  ELSE IF HasKey(resp, "version") THEN resp
  ELSE PyTrue

\* value isInstalled returns for the reply of the info query
isInstalledValue(ver, resp) ==
  IF ~Truthy(resp) THEN PyFalse
  ELSE IF Truthy(ver) /\ HasKey(resp, "version") /\ resp.d["version"] # ver.s
    THEN PyFalse
  ELSE IF HasKey(resp, "version") THEN resp
  ELSE PyTrue

\* isInstalled(version=ver, **k) as a whole: connect if needed, query, decide
isInstalledRun(ver, k, tokOk, resp) ==
  LET c == EnsureSession(k, tokOk)
  IN IF ~c.ok
     THEN [val |-> PyFalse, c |-> c, ev |-> c.ev, resp |-> response]
     ELSE [val |-> isInstalledValue(ver, resp), c |-> c,
           ev |-> c.ev \o <<Ev("get", c.bigip.id, <<"info">>)>>,
           resp |-> resp]

\* top-level call of isInstalled
isInstalled(ver, k, tokOk, resp) ==
  /\ pc = "idle"
  /\ calls' = calls + 1
  /\ CanStart
  /\ LET r == isInstalledRun(ver, k, tokOk, resp)
     IN /\ SetConn(r.c)
        /\ error' = r.c.error
        /\ errWritten' = r.c.wrote
        /\ trace' = r.ev
        /\ response' = r.resp
        /\ result' = r.val
  /\ op' = "isInstalled"
  /\ kw' = k
  /\ version' = ver
  /\ pc' = "done"
  /\ UNCHANGED <<latestReply, failed, argFilename>>
  /\ UNCHANGED <<inst, files, filename, vid, retr, code, currentVersion,
                 installed, releases>>

\* ------------------------------------------------------------------ github
\* github(url): the value returned and the error recorded for a reply
github(reply) ==
  [ ret |-> IF reply.st = "ok" THEN PyText(reply.body) ELSE PyFalse,
    error |-> IF reply.st = "exception" THEN "requests exception"
              ELSE IF reply.st = "status" THEN "Response code is not 200"
              ELSE error,
    wrote |-> reply.st # "ok" ]

\* -------------------------------------------------------------- versionToId
\* name.startswith(version)
StartsWith(s, prefix) ==
  Len(s) >= Len(prefix) /\ SubSeq(s, 1, Len(prefix)) = prefix

RECURSIVE versionToIdScan_Prefix(_, _, _)
versionToIdScan_Prefix(list, ver, i) ==
  IF i > Len(list) THEN PyFalse
  ELSE IF StartsWith(Str(PyStr(list[i].name)), Str(ver))
    THEN PyStr(Str(PyInt(list[i].id)))
  ELSE versionToIdScan_Prefix(list, ver, i + 1)

RECURSIVE versionToIdScan(_, _, _)
\* the loop over json.loads(releases), from index i on
versionToIdScan(list, ver, i) ==
  IF i > Len(list) THEN PyFalse
  ELSE IF Str(PyStr(list[i].name)) = Str(ver) THEN PyStr(Str(PyInt(list[i].id)))
  ELSE versionToIdScan(list, ver, i + 1)

\* versionToId(version) for the reply of GET releases
versionToIdValue(ver, reply) ==
  LET g == github(reply)
  IN IF ~Truthy(g.ret) THEN PyFalse ELSE versionToIdScan(g.ret.j, ver, 1)

\* top-level call of versionToId
versionToId(ver, reply) ==
  /\ pc = "idle"
  /\ calls < MaxCalls
  /\ calls' = calls + 1
  /\ op' = "versionToId"
  /\ version' = ver
  /\ releases' = github(reply).ret
  /\ result' = versionToIdValue(ver, reply)
  /\ error' = github(reply).error
  /\ errWritten' = github(reply).wrote
  /\ trace' = <<Ev("github", 0, <<"releases">>)>>
  /\ pc' = "done"
  /\ UNCHANGED <<latestReply, failed, argFilename>>
  /\ UNCHANGED <<inst, conn, files, kw, filename, vid, retr, dev>>

\* ----------------------------------------------------------- retrieveVersion
RECURSIVE FirstRpm_Last(_, _)
FirstRpm_Last(assets, i) ==
  IF i > Len(assets) THEN 0
  ELSE IF FirstRpm_Last(assets, i + 1) # 0 THEN FirstRpm_Last(assets, i + 1)
  ELSE IF EndsWith(assets[i].name, <<"r", "p", "m">>) THEN i
  ELSE 0

\* index of the first asset from i on whose name ends with 'rpm', 0 if none
RECURSIVE FirstRpm(_, _)
FirstRpm(assets, i) ==
  IF i > Len(assets) THEN 0
  ELSE IF EndsWith(assets[i].name, <<"r", "p", "m">>) THEN i
  ELSE FirstRpm(assets, i + 1)

NotesFile(name) == <<"release-notes-">> \o name \o <<".txt">>

LatestId_Author(body) == body.author

\* json.loads(r)['id']
LatestId(body) == body.id

DownloadValue_Unchecked(g, file) == PyStr(file.name)

\* what the download of an asset makes retrieveVersion return (lines 364-371)
DownloadValue(g, file) == IF Truthy(g.ret) THEN PyStr(file.name) ELSE PyFalse

\* retrieveVersion returns val: to the caller of the top-level call, or into
\* installAS3 (lines 196-199 and 202-207), where its frame and locals are gone
RetrieveReturn(val) ==
  /\ IF rcaller = "top" \/ val.t = "raise"
     THEN /\ result' = val
          /\ pc' = "done"
          /\ UNCHANGED <<filename>>
     ELSE /\ filename' = val
          /\ IF ~Truthy(val)
             THEN /\ result' = PyFalse
                  /\ pc' = "done"
             ELSE /\ pc' = "i_exists"
                  /\ UNCHANGED result
  /\ IF rcaller = "top"
     THEN UNCHANGED <<release, relObj, depth, rcaller>>
     ELSE /\ release' = PyFalse
          /\ relObj' = NoRelease
          /\ depth' = 0
          /\ rcaller' = "none"
  /\ latestReply' = IF rcaller = "top" THEN latestReply ELSE NoLatest
  /\ failed' = IF rcaller # "top" /\ val.t # "raise" /\ ~Truthy(val)
               THEN failed \cup {"resolve"} ELSE failed

\* self.error after retrieveVersion returned val with the error e recorded
\* by its own steps, and whether it was assigned
RetrieveError(val, e) ==
  IF rcaller = "top" \/ val.t = "raise" \/ Truthy(val) THEN e
  ELSE IF Truthy(version) THEN "Cannot retrieve version"
  ELSE "Cannot retrieve latest version"

RetrieveWrote(val, w) ==
  IF rcaller = "top" \/ val.t = "raise" \/ Truthy(val) THEN w ELSE TRUE

\* top-level call of retrieveVersion(release=rel)
CallRetrieve(rel) ==
  /\ pc = "idle"
  /\ calls < MaxCalls
  /\ calls' = calls + 1
  /\ op' = "retrieveVersion"
  /\ release' = rel
  /\ relObj' = NoRelease
  /\ depth' = 0
  /\ rcaller' = "top"
  /\ trace' = <<>>
  /\ errWritten' = FALSE
  /\ result' = PyNone
  /\ pc' = "r_entry"
  /\ UNCHANGED <<latestReply, failed, argFilename>>
  /\ UNCHANGED <<inst, conn, error, files, kw, version, filename, vid, dev,
                 releases>>

\* no release given: fetch the latest pointer and call retrieveVersion again
RetrieveLatest(reply) ==
  /\ pc = "r_entry"
  /\ ~Truthy(release)
  /\ depth < MaxDepth
  /\ LET g == github(reply)
     IN /\ trace' = Append(trace, Ev("github", 0, <<"releases/latest">>))
        /\ IF ~Truthy(g.ret)
           THEN /\ RetrieveReturn(PyFalse)
                /\ error' = RetrieveError(PyFalse, g.error)
                /\ errWritten' = RetrieveWrote(PyFalse, TRUE)
           ELSE /\ release' = PyInt(LatestId(g.ret.j))
                /\ latestReply' = g.ret.j
                /\ depth' = depth + 1
                /\ UNCHANGED <<pc, result, filename, error, errWritten,
                               relObj, rcaller, failed>>
  /\ UNCHANGED <<argFilename>>
  /\ UNCHANGED <<inst, calls, conn, files, op, kw, version, vid, dev, releases>>

\* the interpreter's recursion limit ends the nesting with RecursionError
RetrieveRecursionLimit ==
  /\ pc = "r_entry"
  /\ ~Truthy(release)
  /\ depth = MaxDepth
  /\ RetrieveReturn(PyRaise("RecursionError"))
  /\ UNCHANGED <<argFilename>>
  /\ UNCHANGED <<inst, calls, conn, error, files, op, kw, version, vid, dev,
                 releases, trace, errWritten>>

\* a release id is given: fetch the release object and write its notes
RetrieveRelease(reply) ==
  /\ pc = "r_entry"
  /\ Truthy(release)
  /\ LET g == github(reply)
     IN /\ trace' = Append(trace, Ev("github", 0, <<"releases/">> \o Str(release)))
        /\ IF ~Truthy(g.ret)
           THEN /\ RetrieveReturn(PyFalse)
                /\ error' = RetrieveError(PyFalse, g.error)
                /\ errWritten' = RetrieveWrote(PyFalse, TRUE)
                /\ UNCHANGED files
           ELSE /\ relObj' = g.ret.j
                /\ files' = files \cup {NotesFile(g.ret.j.name)}
                /\ pc' = "r_assets"
                /\ UNCHANGED <<result, filename, error, errWritten, release,
                               depth, rcaller, latestReply, failed>>
  /\ UNCHANGED <<argFilename>>
  /\ UNCHANGED <<inst, calls, conn, op, kw, version, vid, dev, releases>>

\* the loop over the assets reaches an asset whose name ends with 'rpm'
RetrieveDownload(reply) ==
  /\ pc = "r_assets"
  /\ FirstRpm(relObj.assets, 1) # 0
  /\ LET file == relObj.assets[FirstRpm(relObj.assets, 1)]
         g == github(reply)
         val == DownloadValue(g, file)
     IN /\ trace' = Append(trace, Ev("github", 0,
                             <<"releases/assets/">> \o Str(PyInt(file.id))))
        /\ files' = IF Truthy(g.ret) THEN files \cup {file.name} ELSE files
        /\ RetrieveReturn(val)
        /\ error' = RetrieveError(val, g.error)
        /\ errWritten' = RetrieveWrote(val, errWritten \/ g.wrote)
  /\ UNCHANGED <<argFilename>>
  /\ UNCHANGED <<inst, calls, conn, op, kw, version, vid, dev, releases>>

\* the loop ends without a match: the function falls off its end
RetrieveNoAsset ==
  /\ pc = "r_assets"
  /\ FirstRpm(relObj.assets, 1) = 0
  /\ RetrieveReturn(PyNone)
  /\ error' = RetrieveError(PyNone, error)
  /\ errWritten' = RetrieveWrote(PyNone, errWritten)
  /\ UNCHANGED <<argFilename>>
  /\ UNCHANGED <<inst, calls, conn, files, op, kw, version, vid, dev, releases,
                 trace>>

\* ---------------------------------------------------------------- installAS3
\* a call ends: it returns val (or raises it)
Return(val) ==
  /\ result' = val
  /\ pc' = "done"

CallInstall(ver, f, k) ==
  /\ pc = "idle"
  /\ calls' = calls + 1
  /\ CanStart
  /\ op' = "installAS3"
  /\ version' = ver
  /\ filename' = f
  /\ kw' = k
  /\ pc' = "i_connect"
  /\ argFilename' = f
  /\ UNCHANGED <<latestReply, failed>>
  /\ UNCHANGED <<inst, conn, error, files, vid, retr, dev, releases, result,
                 trace, errWritten>>

\* lines 177-180
InstallConnect(tokOk) ==
  /\ pc = "i_connect"
  /\ LET c == EnsureSession(kw, tokOk)
     IN /\ SetConn(c)
        /\ error' = c.error
        /\ errWritten' = (errWritten \/ c.wrote)
        /\ trace' = trace \o c.ev
        /\ IF ~c.ok THEN Return(PyFalse) /\ failed' = failed \cup {"connect"}
           ELSE pc' = "i_touch" /\ UNCHANGED <<result, failed>>
  /\ UNCHANGED <<latestReply, argFilename>>
  /\ UNCHANGED <<inst, calls, files, call, vid, retr, dev, releases>>

\* lines 182-185
InstallTouch(ok) ==
  /\ pc = "i_touch"
  /\ trace' = Append(trace, Ev("command", bigip.id, <<"touch">>))
  /\ IF ~ok
     THEN /\ error' = "Cannot perform touch on /var/config/rest/iapps/enable"
          /\ errWritten' = TRUE
          /\ Return(PyFalse)
          /\ failed' = failed \cup {"command"}
     ELSE /\ pc' = "i_resolve"
          /\ UNCHANGED <<error, errWritten, result, failed>>
  /\ UNCHANGED <<latestReply, argFilename>>
  /\ UNCHANGED <<inst, calls, conn, files, call, vid, retr, dev, releases>>

\* lines 188-189: a filename was given
InstallUseFilename ==
  /\ pc = "i_resolve"
  /\ Truthy(filename)
  /\ pc' = "i_exists"
  /\ UNCHANGED <<latestReply, failed, argFilename>>
  /\ UNCHANGED <<inst, calls, conn, error, files, call, vid, retr, dev, releases,
                 result, trace, errWritten>>

\* lines 190-196: a version was given; map it to an id and start the download
InstallVersionToId(reply) ==
  /\ pc = "i_resolve"
  /\ ~Truthy(filename)
  /\ Truthy(version)
  /\ trace' = Append(trace, Ev("github", 0, <<"releases">>))
  /\ vid' = versionToIdValue(version, reply)
  /\ IF ~Truthy(versionToIdValue(version, reply))
     THEN /\ error' = "Cannot retrieve ID for version"
          /\ errWritten' = TRUE
          /\ Return(PyFalse)
          /\ failed' = failed \cup {"resolve"}
          /\ UNCHANGED retr
     ELSE /\ release' = versionToIdValue(version, reply)
          /\ depth' = 0
          /\ rcaller' = "installAS3"
          /\ pc' = "r_entry"
          /\ UNCHANGED <<error, errWritten, result, relObj, failed>>
  /\ UNCHANGED <<latestReply, argFilename>>
  /\ UNCHANGED <<inst, calls, conn, files, call, dev, releases>>

InstallLatest_IgnoresFilename ==
  /\ pc = "i_resolve"
  /\ ~Truthy(version)
  /\ release' = PyFalse
  /\ depth' = 0
  /\ rcaller' = "installAS3"
  /\ pc' = "r_entry"
  /\ UNCHANGED <<latestReply, failed, argFilename>>
  /\ UNCHANGED <<inst, calls, conn, error, files, call, vid, relObj, dev, releases,
                 result, trace, errWritten>>

\* lines 200-202: neither was given; start the download of the latest release
InstallLatest ==
  /\ pc = "i_resolve"
  /\ ~Truthy(filename)
  /\ ~Truthy(version)
  /\ release' = PyFalse
  /\ depth' = 0
  /\ rcaller' = "installAS3"
  /\ pc' = "r_entry"
  /\ UNCHANGED <<latestReply, failed, argFilename>>
  /\ UNCHANGED <<inst, calls, conn, error, files, call, vid, relObj, dev, releases,
                 result, trace, errWritten>>

Exists_Always(f) == TRUE

\* os.path.exists(filename)
Exists(f) == f.s \in files

\* lines 208-212
InstallExists ==
  /\ pc = "i_exists"
  /\ IF ~Exists(filename) THEN Return(PyFalse) /\ failed' = failed \cup {"exists"}
     ELSE pc' = "i_upload" /\ UNCHANGED <<result, failed>>
  /\ UNCHANGED <<latestReply, argFilename>>
  /\ UNCHANGED <<inst, calls, conn, error, files, call, vid, retr, dev, releases,
                 trace, errWritten>>

UploadNext_Abort(ok) == IF ok THEN "i_submit" ELSE "done"

\* where installAS3 goes on after the upload reported ok: there is no return
\* in the failure branch (lines 214-217)
UploadNext(ok) == "i_submit"

\* lines 213-217
InstallUpload(ok) ==
  /\ pc = "i_upload"
  /\ trace' = Append(trace, Ev("upload", bigip.id, filename.s))
  /\ IF ~ok
     THEN /\ error' = "Upload of file failed"
          /\ errWritten' = TRUE
          /\ failed' = failed \cup {"upload"}
     ELSE UNCHANGED <<error, errWritten, failed>>
  /\ pc' = UploadNext(ok)
  /\ UNCHANGED <<latestReply, argFilename>>
  /\ UNCHANGED <<inst, calls, conn, files, call, vid, retr, dev, releases, result>>

\* `self.bigip.code != 202` decides whether the task was accepted
TaskAccepted_Any2xx(status) == status >= 200 /\ status < 300

TaskAccepted_Always(status) == TRUE

TaskAccepted(status) == status = Accepted

\* lines 222-230
InstallSubmit(status) ==
  /\ pc = "i_submit"
  /\ trace' = Append(trace, Ev("create", bigip.id, <<"INSTALL">>))
  /\ code' = status
  /\ IF ~TaskAccepted(status)
     THEN /\ error' = "request to perform install task failed"
          /\ errWritten' = TRUE
          /\ Return(PyFalse)
          /\ failed' = failed \cup {"submit"}
     ELSE /\ pc' = "i_wait"
          /\ UNCHANGED <<error, errWritten, result, failed>>
  /\ UNCHANGED <<latestReply, argFilename>>
  /\ UNCHANGED <<inst, calls, conn, files, call, vid, retr, currentVersion,
                 installed, response, releases>>

\* lines 231-232
InstallWait ==
  /\ pc = "i_wait"
  /\ trace' = Append(trace, Ev("sleep", 0, <<"5">>))
  /\ pc' = "i_verify"
  /\ UNCHANGED <<latestReply, failed, argFilename>>
  /\ UNCHANGED <<inst, calls, conn, error, files, call, vid, retr, dev, releases,
                 result, errWritten>>

VerifyVersion_Requested == version

\* the version keyword installAS3 passes to isInstalled: none (line 236)
VerifyVersion == PyFalse

\* lines 234-242
InstallVerify(tokOk, resp) ==
  /\ pc = "i_verify"
  /\ LET r == isInstalledRun(VerifyVersion, kw, tokOk, resp)
     IN /\ SetConn(r.c)
        /\ trace' = trace \o r.ev
        /\ response' = r.resp
        /\ installed' = r.val
        /\ IF ~Truthy(r.val)
           THEN /\ error' = "Package not installed successfully"
                /\ errWritten' = TRUE
                /\ Return(PyFalse)
                /\ failed' = failed \cup {"verify"}
           ELSE /\ error' = r.c.error
                /\ errWritten' = (errWritten \/ r.c.wrote)
                /\ Return(PyTrue)
                /\ UNCHANGED failed
  /\ UNCHANGED <<latestReply, argFilename>>
  /\ UNCHANGED <<inst, calls, files, call, vid, retr, code, currentVersion, releases>>

\* -------------------------------------------------------------- uninstallAS3
CallUninstall(k) ==
  /\ pc = "idle"
  /\ calls' = calls + 1
  /\ CanStart
  /\ op' = "uninstallAS3"
  /\ kw' = k
  /\ pc' = "u_connect"
  /\ UNCHANGED <<latestReply, failed, argFilename>>
  /\ UNCHANGED <<inst, conn, error, files, version, filename, vid, retr, dev,
                 releases, result, trace, errWritten>>

\* lines 253-256
UninstallConnect(tokOk) ==
  /\ pc = "u_connect"
  /\ LET c == EnsureSession(kw, tokOk)
     IN /\ SetConn(c)
        /\ error' = c.error
        /\ errWritten' = (errWritten \/ c.wrote)
        /\ trace' = trace \o c.ev
        /\ IF ~c.ok THEN Return(PyFalse)
           ELSE pc' = "u_query" /\ UNCHANGED result
  /\ UNCHANGED <<latestReply, failed, argFilename>>
  /\ UNCHANGED <<inst, calls, files, call, vid, retr, dev, releases>>

\* lines 257-266: `'version' in currentVersion` raises TypeError when
\* currentVersion is the boolean True
UninstallQuery(tokOk, resp) ==
  /\ pc = "u_query"
  /\ LET r == isInstalledRun(PyFalse, kw, tokOk, resp)
     IN /\ SetConn(r.c)
        /\ trace' = trace \o r.ev
        /\ response' = r.resp
        /\ currentVersion' = r.val
        /\ IF ~Truthy(r.val)
           THEN /\ error' = "Error retrieving the current version"
                /\ errWritten' = TRUE
                /\ Return(PyFalse)
           ELSE IF r.val.t # "dict"
           THEN /\ error' = r.c.error
                /\ errWritten' = (errWritten \/ r.c.wrote)
                /\ Return(PyRaise("TypeError"))
           ELSE IF ~HasKey(r.val, "version") \/ ~HasKey(r.val, "release")
           THEN /\ error' = "Cannot find version or release in current version"
                /\ errWritten' = TRUE
                /\ Return(PyFalse)
           ELSE /\ error' = r.c.error
                /\ errWritten' = (errWritten \/ r.c.wrote)
                /\ pc' = "u_submit"
                /\ UNCHANGED result
  /\ UNCHANGED <<latestReply, failed, argFilename>>
  /\ UNCHANGED <<inst, calls, files, call, vid, retr, code, installed, releases>>

\* lines 267-273: created is whether bigip.create returned a response
UninstallSubmit(created) ==
  /\ pc = "u_submit"
  /\ trace' = Append(trace, Ev("create", bigip.id, <<"UNINSTALL">>))
  /\ IF ~created
     THEN /\ error' = "Error uninstalling package"
          /\ errWritten' = TRUE
          /\ Return(PyFalse)
     ELSE /\ pc' = "u_wait"
          /\ UNCHANGED <<error, errWritten, result>>
  /\ UNCHANGED <<latestReply, failed, argFilename>>
  /\ UNCHANGED <<inst, calls, conn, files, call, vid, retr, dev, releases>>

\* line 274
UninstallWait ==
  /\ pc = "u_wait"
  /\ trace' = Append(trace, Ev("sleep", 0, <<"5">>))
  /\ pc' = "u_verify"
  /\ UNCHANGED <<latestReply, failed, argFilename>>
  /\ UNCHANGED <<inst, calls, conn, error, files, call, vid, retr, dev, releases,
                 result, errWritten>>

\* lines 275-280: `self.error(...)` calls the string held in self.error,
\* which raises TypeError
UninstallVerify(tokOk, resp) ==
  /\ pc = "u_verify"
  /\ LET r == isInstalledRun(PyFalse, kw, tokOk, resp)
     IN /\ SetConn(r.c)
        /\ trace' = trace \o r.ev
        /\ response' = r.resp
        /\ installed' = r.val
        /\ error' = r.c.error
        /\ errWritten' = (errWritten \/ r.c.wrote)
        /\ IF ~Truthy(r.val) THEN Return(PyTrue)
           ELSE Return(PyRaise("TypeError"))
  /\ UNCHANGED <<latestReply, failed, argFilename>>
  /\ UNCHANGED <<inst, calls, files, call, vid, retr, code, currentVersion, releases>>

Next ==
  \/ \E ver \in VersionArgs, k \in KwArgs, tokOk \in BOOLEAN,
        resp \in InfoResponses : isInstalled(ver, k, tokOk, resp)
  \/ \E ver \in {PyStr(V1), PyStr(V2)}, reply \in ListReplies :
        versionToId(ver, reply)
  \/ \E rel \in {PyFalse, PyInt(1), PyStr(<<"3">>)} : CallRetrieve(rel)
  \/ \E reply \in LatestReplies : RetrieveLatest(reply)
  \/ RetrieveRecursionLimit
  \/ \E reply \in ReleaseReplies : RetrieveRelease(reply)
  \/ \E reply \in DownloadReplies : RetrieveDownload(reply)
  \/ RetrieveNoAsset
  \/ \E ver \in VersionArgs, f \in FilenameArgs, k \in KwArgs :
        CallInstall(ver, f, k)
  \/ \E tokOk \in BOOLEAN : InstallConnect(tokOk)
  \/ \E ok \in BOOLEAN : InstallTouch(ok)
  \/ InstallUseFilename
  \/ \E reply \in ListReplies : InstallVersionToId(reply)
  \/ InstallLatest
  \/ InstallExists
  \/ \E ok \in BOOLEAN : InstallUpload(ok)
  \/ \E status \in StatusCodes : InstallSubmit(status)
  \/ InstallWait
  \/ \E tokOk \in BOOLEAN, resp \in InfoResponses : InstallVerify(tokOk, resp)
  \/ \E k \in KwArgs : CallUninstall(k)
  \/ \E tokOk \in BOOLEAN : UninstallConnect(tokOk)
  \/ \E tokOk \in BOOLEAN, resp \in InfoResponses : UninstallQuery(tokOk, resp)
  \/ \E created \in BOOLEAN : UninstallSubmit(created)
  \/ UninstallWait
  \/ \E tokOk \in BOOLEAN, resp \in InfoResponses : UninstallVerify(tokOk, resp)
  \/ Forget

Spec == Init /\ [][Next]_vars

\* ------------------------------------------------------------------ claims
HasEv(k) == \E i \in DOMAIN trace : trace[i].k = k
DeviceKinds == {"get_token", "command", "upload", "create", "get"}

\* C1: in installAS3, once the INSTALL task request was submitted with a
\* status code other than 202, the call has returned False and neither the
\* wait nor the verification query was issued; a wait or a verification
\* query is only ever issued after the status code 202.
C1_NotAcceptedReturnsFalse ==
  (op = "installAS3" /\ HasEv("create")) =>
    /\ code # 202 =>
         pc = "done" /\ result = PyFalse /\ ~HasEv("sleep") /\ ~HasEv("get")
    /\ (HasEv("sleep") \/ HasEv("get")) => code = 202

\* a run in which the task request got status 200 and the call returned False
C1_Witness ==
  /\ op = "installAS3" /\ pc = "done" /\ HasEv("create")
  /\ code = 200 /\ result = PyFalse

\* C2: in every run of installAS3 whose resolved filename is not on local
\* disk, neither an upload nor a task submission is issued and the call
\* returns False.
C2_MissingFileNoUpload ==
  (op = "installAS3" /\ Truthy(filename) /\ filename.s \notin files) =>
    /\ ~HasEv("upload")
    /\ ~HasEv("create")
    /\ pc \notin {"i_upload", "i_submit", "i_wait", "i_verify"}
    /\ pc = "done" => result = PyFalse

\* a run that passed the prerequisite command, found the file missing and
\* returned
C2_Witness ==
  /\ op = "installAS3" /\ pc = "done" /\ result = PyFalse
  /\ filename = PyStr(MissingRpm) /\ MissingRpm \notin files
  /\ trace # <<>> /\ trace[Len(trace)].k = "command"
  /\ error # "Cannot perform touch on /var/config/rest/iapps/enable"

\* C3 (as claimed): uninstallAS3, once the task was submitted and the wait
\* elapsed, returns True iff the re-queried state is not-installed, and
\* otherwise returns False with a verification error recorded.
C3_Claim ==
  (op = "uninstallAS3" /\ pc = "done" /\ HasEv("sleep")) =>
    /\ result = PyTrue <=> ~Truthy(installed)
    /\ Truthy(installed) => (result = PyFalse /\ errWritten)

\* C4 (as claimed): uninstallAS3 returns False with a not-installed error and
\* submits no task for every result of the installed-state query that is
\* false or lacks the version or the release field, the boolean True included.
C4_Claim ==
  (/\ op = "uninstallAS3" /\ pc = "done" /\ HasEv("get")
   /\ \/ ~Truthy(currentVersion)
      \/ ~HasKey(currentVersion, "version")
      \/ ~HasKey(currentVersion, "release")) =>
    /\ result = PyFalse
    /\ ~HasEv("create")
    /\ error \in {"Error retrieving the current version",
                  "Cannot find version or release in current version"}

\* C5 (as claimed): whenever installAS3 or uninstallAS3 returns False, the
\* error field holds a message stored during that same call.
C5_Claim ==
  (op \in {"installAS3", "uninstallAS3"} /\ pc = "done" /\ result = PyFalse)
    => errWritten

\* C6: in installAS3, once the task was accepted and the wait elapsed, the
\* call returns True if the re-queried info reply reports the package (a
\* non-empty mapping), and otherwise returns False with the verification
\* error recorded.
C6_InstallVerification ==
  (op = "installAS3" /\ pc = "done" /\ HasEv("sleep")) =>
    IF response.t = "dict" /\ DOMAIN response.d # {}
    THEN result = PyTrue
    ELSE /\ result = PyFalse
         /\ error = "Package not installed successfully"
         /\ errWritten

\* an accepted install whose verification reply has no version field
C6_Witness ==
  /\ op = "installAS3" /\ pc = "done" /\ HasEv("sleep")
  /\ response = PyDict([release |-> R1]) /\ result = PyTrue

\* C7: isInstalled returns false when the info query gives no (or an empty)
\* reply, false when an expected version is supplied and differs from the
\* reported one, the reply mapping when it has a version field that is not
\* contradicted, and the boolean True when the reply has no version field.
C7_IsInstalledResult ==
  (op = "isInstalled" /\ pc = "done" /\ HasEv("get")) =>
    IF response = PyFalse \/ response = PyDict(<<>>) THEN result = PyFalse
    ELSE IF "version" \notin DOMAIN response.d THEN result = PyTrue
    ELSE IF version # PyFalse /\ response.d["version"] # version.s
      THEN result = PyFalse
    ELSE result = response

\* isInstalled(version=v1) against a device that reports v2
C7_Witness ==
  /\ op = "isInstalled" /\ pc = "done" /\ HasEv("get")
  /\ version = PyStr(V1)
  /\ response = PyDict([version |-> V2, release |-> R1])
  /\ result = PyFalse

\* C8: a session is established at most once per instance; once it exists no
\* further connection object is created and every device call goes through it.
C8_SessionOnce ==
  /\ nEstablished <= 1
  /\ Truthy(bigip) => (bigip.id = firstSession /\ nConn = firstSession)
  /\ \A i \in DOMAIN trace :
       (trace[i].k \in DeviceKinds /\ firstSession # 0)
         => trace[i].s = firstSession

\* a later call that issues a device call without connecting again
C8_Witness ==
  /\ calls >= 2 /\ nEstablished = 1
  /\ ~HasEv("connect")
  /\ \E i \in DOMAIN trace : trace[i].k = "get" /\ trace[i].s = firstSession

\* C9: versionToId returns the id of the first release in list order whose
\* name equals the requested version, and false when no name equals it.
C9_ExactNameMatch ==
  (op = "versionToId" /\ pc = "done" /\ releases # PyFalse) =>
    LET list == releases.j
        hits == {i \in DOMAIN list : list[i].name = version.s}
    IN IF hits = {} THEN result = PyFalse
       ELSE \E i \in hits :
              /\ \A j \in hits : i <= j
              /\ result = PyStr(StrOfInt(list[i].id))

\* the list holds v10 before v1: the lookup of v1 skips v10
C9_Witness ==
  /\ op = "versionToId" /\ pc = "done" /\ releases # PyFalse
  /\ version = PyStr(V1)
  /\ Len(releases.j) = 2
  /\ releases.j[1].name = V10 /\ releases.j[2] = [name |-> V1, id |-> 3]
  /\ result = PyStr(<<"3">>)

AssetRequests ==
  SelectSeq(trace, LAMBDA e : e.k = "github" /\ Len(e.a) = 2
                                /\ e.a[1] = "releases/assets/")

IsRpm(name) ==
  Len(name) >= 3 /\ <<name[Len(name) - 2], name[Len(name) - 1], name[Len(name)]>>
                      = <<"r", "p", "m">>

C11_LatestEquivalent ==
  /\ [](LET L == {i \in DOMAIN trace : trace[i].a = <<"releases/latest">>}
        IN \A i \in L :
             (/\ \A j \in L : j <= i
              /\ latestReply.id # 0
              /\ Len(trace) > i)
               => trace[i + 1].a = <<"releases/">> \o StrOfInt(latestReply.id))
  /\ [][(pc = "r_entry" /\ ~Truthy(release) /\ depth' = depth + 1) =>
          /\ pc' = "r_entry"
          /\ release' = PyInt(latestReply'.id)
          /\ relObj' = NoRelease
          /\ files' = files
          /\ error' = error
          /\ result' = result
          /\ filename' = filename
          /\ rcaller' = rcaller]_vars

\* retrieveVersion() got latest id 1 and downloaded the package of release 1
C11_Witness ==
  /\ op = "retrieveVersion" /\ pc = "done" /\ depth = 1
  /\ latestReply.id = 1
  /\ Len(trace) = 3 /\ trace[2].a = <<"releases/", "1">>
  /\ result = PyStr(RpmA)

\* C12: retrieveVersion returns false whenever a catalog fetch it issued
\* failed (latest pointer, release object or asset download).
C12_FetchFailureReturnsFalse ==
  (op = "retrieveVersion" /\ pc = "done" /\ errWritten) => result = PyFalse

\* the asset download of a no-argument call failed
C12_Witness ==
  /\ op = "retrieveVersion" /\ pc = "done" /\ errWritten
  /\ depth = 1 /\ Len(AssetRequests) = 1
  /\ result = PyFalse

\* C13 (as claimed): in installAS3 the failure of any step ends the call in
\* failure with the error recorded, no later step being executed.
C13_Claim ==
  (op = "installAS3" /\ failed # {}) =>
    pc = "done" /\ result = PyFalse /\ errWritten

\* C14: when the upload reports an error, installAS3 records a message and
\* goes on to submit the INSTALL task; its result is decided by the status
\* code and the verification alone.
C14_UploadFailureNotFatal ==
  (op = "installAS3" /\ "upload" \in failed) =>
    /\ errWritten
    /\ pc = "i_submit" => error = "Upload of file failed"
    /\ pc = "i_submit" \/ HasEv("create")
    /\ pc = "done" =>
         /\ result \in {PyTrue, PyFalse}
         /\ result = PyTrue <=>
              (code = 202 /\ response.t = "dict" /\ DOMAIN response.d # {})

\* an install whose upload failed and which still returned True
C14_Witness ==
  /\ op = "installAS3" /\ pc = "done" /\ "upload" \in failed
  /\ HasEv("create") /\ result = PyTrue

Before(i, k) == \E j \in 1..(i - 1) : trace[j].k = k

\* C15: installAS3 issues its external calls in the fixed order: a connect
\* only first, the prerequisite command only through a session, catalog
\* requests and the upload only after the command succeeded, the task only
\* after the upload, the wait only after the task was accepted and the
\* verification query only after the wait.
C15_StepOrder ==
  op = "installAS3" =>
    \A i \in DOMAIN trace :
      /\ trace[i].k = "connect" => i = 1
      /\ trace[i].k = "command" =>
           /\ bigip.t = "session" /\ trace[i].s = bigip.id
           /\ \A j \in 1..(i - 1) : trace[j].k \in {"connect", "get_token"}
      /\ trace[i].k \in {"github", "upload"} =>
           Before(i, "command") /\ "command" \notin failed
      /\ trace[i].k = "create" => Before(i, "upload")
      /\ trace[i].k = "sleep" => (Before(i, "create") /\ code = 202)
      /\ trace[i].k = "get" => (Before(i, "sleep") /\ i = Len(trace))

\* a complete install that connected, downloaded, uploaded and verified
C15_Witness ==
  /\ op = "installAS3" /\ pc = "done" /\ result = PyTrue
  /\ HasEv("connect") /\ HasEv("github") /\ HasEv("upload") /\ HasEv("get")

\* C16 (as claimed): retrieveVersion makes at most one recursive call, for
\* every id the latest pointer can carry, zero included.
C16_Claim == depth <= 1

\* C17 (as claimed): a session established by a call uses, for each setting,
\* the call's override if given and otherwise the instance's value; an
\* instance constructed for token auth connects with token auth.
C17_Claim ==
  (HasEv("connect") /\ bigip.t = "session" /\ bigip.id = trace[1].s) =>
    /\ bigip.host = (IF kw.host = "unset" THEN host ELSE kw.host)
    /\ bigip.token = (IF kw.usetoken = "unset" THEN usetoken
                      ELSE kw.usetoken = "True")

CatalogRequests == SelectSeq(trace, LAMBDA e : e.k = "github")

\* C18: installAS3 resolves the artifact by priority: with a filename no
\* catalog request is issued, version or not; with only a version the release
\* list is fetched first, then exactly the release of the id found, and when
\* no id is found the call fails without upload; with neither the latest
\* pointer is fetched first and the release list never.
C18_ResolutionPriority ==
  op = "installAS3" =>
    LET G == CatalogRequests
    IN /\ Truthy(argFilename) => G = <<>>
       /\ (~Truthy(argFilename) /\ Truthy(version)) =>
            /\ Len(G) >= 1 => G[1].a = <<"releases">>
            /\ Len(G) >= 2 => (Truthy(vid) /\ G[2].a = <<"releases/">> \o vid.s)
            /\ \A i \in DOMAIN G : G[i].a # <<"releases/latest">>
            /\ (Len(G) >= 1 /\ ~Truthy(vid)) =>
                 /\ pc = "done" /\ result = PyFalse
                 /\ Len(G) = 1 /\ ~HasEv("upload")
       /\ (~Truthy(argFilename) /\ ~Truthy(version)) =>
            /\ Len(G) >= 1 => G[1].a = <<"releases/latest">>
            /\ \A i \in DOMAIN G : G[i].a # <<"releases">>
            /\ HasEv("upload") => Len(G) >= 3

\* an install given both a filename and a version: no catalog request
C18_Witness ==
  /\ op = "installAS3" /\ pc = "done" /\ result = PyTrue
  /\ argFilename = PyStr(LocalRpm) /\ version = PyStr(V1)
  /\ CatalogRequests = <<>> /\ HasEv("upload")

\* C19: once a session exists, no step of any later call replaces it, and
\* every device call that step issues goes through it, whatever connection
\* overrides the call was given.
C19_OverridesIgnored ==
  [][bigip.t = "session" =>
       /\ bigip' = bigip
       /\ \A i \in (Len(trace) + 1)..Len(trace') :
            /\ trace'[i].k # "connect"
            /\ trace'[i].k \in DeviceKinds => trace'[i].s = bigip.id]_vars

\* a call given another host queries the device of the existing session
C19_Witness ==
  /\ bigip.t = "session" /\ bigip.host = DefaultHost
  /\ kw.host = OtherHost
  /\ ~HasEv("connect") /\ HasEv("get")

\* C20: the verification of installAS3 compares no version: called with a
\* version, after an accepted task it returns True for every non-empty info
\* reply, also one that reports another version.
C20_VerifyIgnoresVersion ==
  (/\ op = "installAS3" /\ pc = "done" /\ HasEv("sleep") /\ Truthy(version)
   /\ response.t = "dict" /\ DOMAIN response.d # {}) => result = PyTrue

\* install of v1 verified against a device that reports v2
C20_Witness ==
  /\ op = "installAS3" /\ pc = "done" /\ HasEv("sleep")
  /\ version = PyStr(V1)
  /\ response = PyDict([version |-> V2, release |-> R1])
  /\ result = PyTrue

====
